---- MODULE Spec2Model ----
(***************************************************************************)
(* Route trees declared in src/src/router/c17_nested_routing.rs (examples  *)
(* s1..s5) and the route-tree matcher that consumes them.                  *)
(*                                                                         *)
(* The route declarations (patterns, views, nesting, declaration order)    *)
(* are taken from the source file.  The source declares the trees only:    *)
(* the PathPattern parser and the Matcher are described in spec.md         *)
(* sections 3, 4.1 and 4.3, and are modelled from there.                   *)
(*                                                                         *)
(* Strings are sequences of one-character strings, so that splitting on    *)
(* "/", recognising the ":" and "*" markers and joining a wildcard suffix  *)
(* are computed rather than assumed.                                       *)
(***************************************************************************)
EXTENDS Integers, Sequences, FiniteSets, TLC

VARIABLES app, routes, path, result, pattern, parsed

vars == <<app, routes, path, result, pattern, parsed>>

----------------------------------------------------------------------------
(* Bounds *)

\* longest generated request path, in segments
MaxSegs == 3

\* longest generated route pattern, in segments
MaxPatSegs == 3

----------------------------------------------------------------------------
(* Strings *)

SLASH == "/"
COLON == ":"
STAR == "*"

s_users == <<"u", "s", "e", "r", "s">>
s_id == <<"i", "d">>
s_any == <<"a", "n", "y">>
s_42 == <<"4", "2">>
s_1 == <<"1">>
s_2 == <<"2">>
s_other == <<"o", "t", "h", "e", "r">>
s_extra == <<"e", "x", "t", "r", "a">>
s_anything == <<"a", "n", "y", "t", "h", "i", "n", "g">>
s_goes == <<"g", "o", "e", "s">>
s_here == <<"h", "e", "r", "e">>

\* segments joined by "/", without a leading "/"
RECURSIVE Join(_)
Join(segs) ==
    IF segs = <<>> THEN <<>>
    ELSE IF Len(segs) = 1 THEN Head(segs)
    ELSE Head(segs) \o <<SLASH>> \o Join(Tail(segs))

\* the path of a sequence of segments: "/" followed by the joined segments
MkPath(segs) == <<SLASH>> \o Join(segs)

\* all sequences over S of length 0..n
RECURSIVE SeqsUpTo(_, _)
SeqsUpTo(S, n) ==
    IF n = 0 THEN {<<>>}
    ELSE LET shorter == SeqsUpTo(S, n - 1)
         IN  shorter \cup {<<x>> \o s : x \in S, s \in {t \in shorter : Len(t) = n - 1}}

----------------------------------------------------------------------------
(* Views: the components of the source file *)

Home == "Home"
Users == "Users"
UserProfile == "UserProfile"
NoUser == "NoUser"
NotFoundView == "NotFoundView"

----------------------------------------------------------------------------
(* Route declarations *)

Route(p, v) == [kind |-> "Route", path |-> p, view |-> v, children |-> <<>>]

ParentRoute(p, v, ch) == [kind |-> "ParentRoute", path |-> p, view |-> v, children |-> ch]

p_root == <<SLASH>>
p_users == <<SLASH>> \o s_users
p_users_id == <<SLASH>> \o s_users \o <<SLASH, COLON>> \o s_id
p_id == <<COLON>> \o s_id
p_any == <<SLASH, STAR>> \o s_any
p_empty == <<>>

\* s1 with the fallback route declared first instead of last
s1_fallbackFirst ==
    << Route(p_any, NotFoundView),
       Route(p_root, Home),
       Route(p_users, Users),
       Route(p_users_id, UserProfile) >>

\* s1 with the fallback declared as a Param `/:any` instead of a Wildcard
s1_paramAny ==
    << Route(p_root, Home),
       Route(p_users, Users),
       Route(p_users_id, UserProfile),
       Route(<<SLASH, COLON>> \o s_any, NotFoundView) >>

\* s1 with a segment declared after the Wildcard: `/*any/users`
s1_wildcardNotLast ==
    << Route(p_root, Home),
       Route(p_users, Users),
       Route(p_users_id, UserProfile),
       Route(p_any \o <<SLASH>> \o s_users, NotFoundView) >>

s1 ==
    << Route(p_root, Home),
       Route(p_users, Users),
       Route(p_users_id, UserProfile),
       Route(p_any, NotFoundView) >>

\* s2 with the fallback route declared first instead of last
s2_fallbackFirst ==
    << Route(p_any, NotFoundView),
       Route(p_root, Home),
       ParentRoute(p_users, Users, << Route(p_id, UserProfile) >>) >>

\* s2 with the nested declaration replaced by the flat routes of s1
s2_flattened ==
    << Route(p_root, Home),
       Route(p_users, Users),
       Route(p_users_id, UserProfile),
       Route(p_any, NotFoundView) >>

s2 ==
    << Route(p_root, Home),
       ParentRoute(p_users, Users, << Route(p_id, UserProfile) >>),
       Route(p_any, NotFoundView) >>

\* s3 with the `:` marker missing: `/users/id`
s3_literalId ==
    << Route(p_users, Users),
       Route(p_users \o <<SLASH>> \o s_id, UserProfile) >>

\* s3 with a wildcard fallback route added
s3_withFallback ==
    << Route(p_users, Users),
       Route(p_users_id, UserProfile),
       Route(p_any, NotFoundView) >>

s3 ==
    << Route(p_users, Users),
       Route(p_users_id, UserProfile) >>

\* s4 with an empty-pattern child added, as in s5
s4_emptyChild ==
    << ParentRoute(p_users, Users,
                   << Route(p_id, UserProfile),
                      Route(p_empty, NoUser) >>) >>

\* s4 with the views of parent and child exchanged
s4_viewsSwapped ==
    << ParentRoute(p_users, UserProfile, << Route(p_id, Users) >>) >>

s4 ==
    << ParentRoute(p_users, Users, << Route(p_id, UserProfile) >>) >>

\* s5 without the empty-pattern child
s5_noEmptyChild ==
    << ParentRoute(p_users, Users, << Route(p_id, UserProfile) >>) >>

s5 ==
    << ParentRoute(p_users, Users,
                   << Route(p_id, UserProfile),
                      Route(p_empty, NoUser) >>) >>

\* the flat declaration `/users/:id` on its own (the second route of s3)
flat == << s3[2] >>

\* the fallback declaration `/*any` on its own (the last route of s1)
anyOnly == << s1[Len(s1)] >>

Apps == {"s1", "s2", "s3", "s4", "s5", "flat", "anyOnly"}

Declared(a) ==
    CASE a = "s1" -> s1
      [] a = "s2" -> s2
      [] a = "s3" -> s3
      [] a = "s4" -> s4
      [] a = "s5" -> s5
      [] a = "flat" -> flat
      [] a = "anyOnly" -> anyOnly

----------------------------------------------------------------------------
(* PathPattern parser (spec.md 4.1) *)

\* s split on "/", empty segments dropped; cur is the segment being read
RECURSIVE SplitFrom(_, _)
SplitFrom(s, cur) ==
    IF s = <<>> THEN (IF cur = <<>> THEN <<>> ELSE <<cur>>)
    ELSE IF Head(s) = SLASH
         THEN (IF cur = <<>> THEN <<>> ELSE <<cur>>) \o SplitFrom(Tail(s), <<>>)
         ELSE SplitFrom(Tail(s), Append(cur, Head(s)))

Split(s) == SplitFrom(s, <<>>)

Segment(seg) ==
    IF Head(seg) = COLON THEN [kind |-> "Param", name |-> Tail(seg)]
    ELSE IF Head(seg) = STAR THEN [kind |-> "Wildcard", name |-> Tail(seg)]
    ELSE [kind |-> "Literal", name |-> seg]

InvalidPatternError == [ok |-> FALSE, segs |-> <<>>]

PathPattern(s) ==
    LET raw == Split(s)
        segs == [i \in 1..Len(raw) |-> Segment(raw[i])]
        bad == \E i \in 1..Len(segs) :
                  \/ segs[i].kind = "Wildcard" /\ i # Len(segs)
                  \/ segs[i].kind # "Literal" /\ segs[i].name = <<>>
    IN  IF bad THEN InvalidPatternError ELSE [ok |-> TRUE, segs |-> segs]

----------------------------------------------------------------------------
(* RouteNode tree construction (spec.md 4.2) *)

RECURSIVE RouteNodes(_)
RouteNodes(nodes) ==
    [i \in 1..Len(nodes) |->
        [pattern |-> PathPattern(nodes[i].path),
         view |-> nodes[i].view,
         children |-> RouteNodes(nodes[i].children)]]

RECURSIVE Valid(_)
Valid(nodes) ==
    \A i \in 1..Len(nodes) : nodes[i].pattern.ok /\ Valid(nodes[i].children)

Build(decl) ==
    LET nodes == RouteNodes(decl)
    IN  IF Valid(nodes) THEN [ok |-> TRUE, nodes |-> nodes]
        ELSE [ok |-> FALSE, nodes |-> <<>>]

----------------------------------------------------------------------------
(* Matcher (spec.md 4.3) *)

NoParams == <<>>

NotFound == [tag |-> "NotFound", view_chain |-> <<>>, params |-> NoParams]

Matched(chain, ps) == [tag |-> "Matched", view_chain |-> chain, params |-> ps]

NoConsume == [ok |-> FALSE, params |-> NoParams, rest |-> <<>>]

\* consume the pattern segments pat against the front of the path segments
RECURSIVE Consume(_, _)
Consume(pat, segs) ==
    IF pat = <<>> THEN [ok |-> TRUE, params |-> NoParams, rest |-> segs]
    ELSE IF Head(pat).kind = "Wildcard"
         THEN [ok |-> TRUE, params |-> (Head(pat).name :> Join(segs)), rest |-> <<>>]
    ELSE IF segs = <<>> THEN NoConsume
    ELSE IF Head(pat).kind = "Literal"
         THEN IF Head(segs) = Head(pat).name
              THEN Consume(Tail(pat), Tail(segs))
              ELSE NoConsume
    ELSE LET c == Consume(Tail(pat), Tail(segs))
         IN  IF c.ok
             THEN [ok |-> TRUE,
                   params |-> (Head(pat).name :> Head(segs)) @@ c.params,
                   rest |-> c.rest]
             ELSE NoConsume

\* ordered depth-first traversal of the siblings nodes[i..], no backtracking
\* out of a node whose pattern matched and whose children were entered
RECURSIVE MatchNodes(_, _, _)
MatchNodes(nodes, i, segs) ==
    IF i > Len(nodes) THEN NotFound
    ELSE LET n == nodes[i]
             c == Consume(n.pattern.segs, segs)
         IN  IF ~c.ok THEN MatchNodes(nodes, i + 1, segs)
             ELSE IF n.children # <<>>
                  THEN LET sub == MatchNodes(n.children, 1, c.rest)
                       IN  IF sub.tag = "Matched"
                           THEN Matched(<<n.view>> \o sub.view_chain,
                                        c.params @@ sub.params)
                           ELSE NotFound
             ELSE IF c.rest = <<>> THEN Matched(<<n.view>>, c.params)
             ELSE MatchNodes(nodes, i + 1, segs)

Match(tree, requestPath) == MatchNodes(tree, 1, Split(requestPath))

----------------------------------------------------------------------------
(* Inputs *)

PathSegs == {s_users, s_42, s_other}

NamedPaths ==
    { MkPath(<<s_users, s_1, s_2>>),
      MkPath(<<s_users, s_42, s_extra>>),
      MkPath(<<s_anything, s_goes, s_here>>) }

Paths == {MkPath(segs) : segs \in SeqsUpTo(PathSegs, MaxSegs)} \cup NamedPaths

PatSegs == {s_users, <<COLON>> \o s_id, <<STAR>> \o s_any, <<COLON>>, <<STAR>>}

ExamplePatterns == {p_root, p_users, p_users_id, p_id, p_any, p_empty}

Patterns == {MkPath(segs) : segs \in SeqsUpTo(PatSegs, MaxPatSegs)} \cup ExamplePatterns

None == [tag |-> "None", view_chain |-> <<>>, params |-> NoParams]

\* nothing parsed yet
NotParsed == [ok |-> FALSE, segs |-> <<[kind |-> "None", name |-> <<>>]>>]

----------------------------------------------------------------------------
(* The router: a tree built once from one of the declarations, then matched *)

Init ==
    /\ app \in Apps
    /\ routes = Build(Declared(app))
    /\ path = <<>>
    /\ result = None
    /\ pattern = <<>>
    /\ parsed = NotParsed

Navigate(p) ==
    /\ routes.ok
    /\ path' = p
    /\ result' = Match(routes.nodes, p)
    /\ UNCHANGED <<app, routes, pattern, parsed>>

Next == \E p \in Paths : Navigate(p)

Spec == Init /\ [][Next]_vars

(* The pattern parser on its own *)

InitParse ==
    /\ app = "s1"
    /\ routes = Build(Declared(app))
    /\ path = <<>>
    /\ result = None
    /\ pattern = <<>>
    /\ parsed = NotParsed

Parse(s) ==
    /\ pattern' = s
    /\ parsed' = PathPattern(s)
    /\ UNCHANGED <<app, routes, path, result>>

NextParse == \E s \in Patterns : Parse(s)

SpecParse == InitParse /\ [][NextParse]_vars

----------------------------------------------------------------------------
(* Flat view of a tree (spec.md 4.2): a parent route's pattern is prefixed *)
(* to all its children's patterns.                                         *)

RECURSIVE FlatRoutes(_)
FlatRoutes(decl) ==
    UNION { IF decl[i].children = <<>>
            THEN {[pat |-> decl[i].path, views |-> <<decl[i].view>>]}
            ELSE {[pat |-> decl[i].path \o <<SLASH>> \o b.pat,
                   views |-> <<decl[i].view>> \o b.views] :
                      b \in FlatRoutes(decl[i].children)}
          : i \in 1..Len(decl) }

\* the flat pattern pat, on its own, accepts the whole request path p
Accepts(pat, p) ==
    LET c == Consume(PathPattern(pat).segs, Split(p))
    IN  c.ok /\ c.rest = <<>>

RECURSIVE DeclaredPatterns(_)
DeclaredPatterns(decl) ==
    UNION { {decl[i].path} \cup DeclaredPatterns(decl[i].children) : i \in 1..Len(decl) }

Last(seq) == seq[Len(seq)]

navigated == result.tag # "None"

p_users_42 == MkPath(<<s_users, s_42>>)
p_users_1_2 == MkPath(<<s_users, s_1, s_2>>)
p_users_42_extra == MkPath(<<s_users, s_42, s_extra>>)
p_other == MkPath(<<s_other>>)
p_anything_goes_here == MkPath(<<s_anything, s_goes, s_here>>)

----------------------------------------------------------------------------
\* C1: the nested declaration s4 (ParentRoute `/users` with the only child
\* `:id`) and the flat declaration `/users/:id` give Matched for the same
\* request paths, with the same params.
C1_NestingEquivalence ==
    (app = "s4" /\ navigated) =>
        LET f == Match(Build(flat).nodes, path)
        IN  /\ result.tag = f.tag
            /\ result.params = f.params

C1_Witness ==
    /\ app = "s4"
    /\ path = p_users_42
    /\ result.tag = "Matched"
    /\ Match(Build(flat).nodes, path).tag = "Matched"

\* C2: for the pattern `/users/:id` and a path `/users/<s>` with one
\* non-empty segment <s>, the result is Matched with params exactly {id: <s>}.
C2_ParamCapture ==
    (app \in {"flat", "s1", "s3"} /\ navigated) =>
        \A s \in PathSegs \cup {s_1, s_2} :
            path = MkPath(<<s_users, s>>) =>
                /\ result.tag = "Matched"
                /\ DOMAIN result.params = {s_id}
                /\ result.params[s_id] = s

C2_Witness ==
    /\ app = "flat"
    /\ path = p_users_42
    /\ result.tag = "Matched"
    /\ result.params[s_id] = s_42

\* C3: for the pattern `/*any` every request path is Matched and the param
\* `any` holds the whole path after the leading "/", segments still joined
\* by "/"; for `/anything/goes/here` it is "anything/goes/here".
C3_WildcardCapture ==
    (app = "anyOnly" /\ navigated) =>
        /\ result.tag = "Matched"
        /\ DOMAIN result.params = {s_any}
        /\ result.params[s_any] = Tail(path)
        /\ path = p_anything_goes_here =>
              result.params[s_any] =
                  <<"a", "n", "y", "t", "h", "i", "n", "g", "/",
                    "g", "o", "e", "s", "/", "h", "e", "r", "e">>

C3_Witness ==
    /\ app = "anyOnly"
    /\ path = p_anything_goes_here
    /\ result.tag = "Matched"
    /\ Len(result.params[s_any]) = 18

\* C4: in the trees without a wildcard route (s3, s4) a request path that no
\* branch accepts gives NotFound, never Matched; `/`, `/other` and
\* `/users/1/2` are such paths.
C4_NoMatchIsNotFound ==
    (app \in {"s3", "s4"} /\ navigated) =>
        /\ (\A b \in FlatRoutes(Declared(app)) : ~Accepts(b.pat, path)) =>
              result = NotFound
        /\ path \in {p_root, p_other, p_users_1_2} => result = NotFound

C4_Witness ==
    /\ app = "s4"
    /\ path = p_users_1_2
    /\ result = NotFound
    /\ \A b \in FlatRoutes(Declared(app)) : ~Accepts(b.pat, path)

\* literal-only pattern
IsLiteral(pat) ==
    LET pp == PathPattern(pat)
    IN  pp.ok /\ \A i \in 1..Len(pp.segs) : pp.segs[i].kind = "Literal"

\* C5 (as claimed): for every route of the tree whose pattern is literal
\* only, the request path equal to that pattern is Matched with empty params.
C5_LiteralEveryRoute ==
    navigated =>
        \A i \in 1..Len(Declared(app)) :
            (IsLiteral(Declared(app)[i].path) /\ path = Declared(app)[i].path) =>
                /\ result.tag = "Matched"
                /\ result.params = NoParams

\* C5 (amended): for every root-to-leaf branch of the tree whose full pattern
\* (ancestors' patterns prefixed) is literal only, the request path equal to
\* it is Matched with empty params; a ParentRoute's own pattern is not a
\* branch.
C5_LiteralLeafRoute ==
    navigated =>
        \A b \in FlatRoutes(Declared(app)) :
            (IsLiteral(b.pat) /\ Split(path) = Split(b.pat)) =>
                /\ result.tag = "Matched"
                /\ result.params = NoParams
                /\ result.view_chain = b.views

C5_Witness ==
    /\ app = "s1"
    /\ path = p_users
    /\ result.tag = "Matched"
    /\ result.params = NoParams
    /\ result.view_chain = <<Users>>

\* position k of string s starts a segment
SegStart(s, k) == k = 1 \/ s[k - 1] = SLASH

\* position k of string s ends a segment
SegEnd(s, k) == k = Len(s) \/ s[k + 1] = SLASH

\* C6: a pattern is rejected exactly when a Wildcard segment is not the last
\* segment or a Param/Wildcard marker is followed by an empty name; the
\* declared patterns of the examples are accepted; an accepted pattern has at
\* most one Wildcard, in last position.
C6_PatternValidation ==
    (parsed # NotParsed) =>
        LET s == pattern
            wildNotLast ==
                \E k \in 1..Len(s) :
                    /\ SegStart(s, k) /\ s[k] = STAR
                    /\ \E m \in (k + 1)..Len(s) : s[m] # SLASH /\ s[m - 1] = SLASH
            emptyName ==
                \E k \in 1..Len(s) :
                    SegStart(s, k) /\ s[k] \in {STAR, COLON} /\ SegEnd(s, k)
        IN  /\ (parsed = InvalidPatternError) <=> (wildNotLast \/ emptyName)
            /\ (\E a \in Apps : s \in DeclaredPatterns(Declared(a))) => parsed.ok
            /\ parsed.ok =>
                  \A i \in 1..Len(parsed.segs) :
                      parsed.segs[i].kind = "Wildcard" => i = Len(parsed.segs)

C6_Witness ==
    /\ pattern = MkPath(<<(<<STAR>> \o s_any), s_users>>)
    /\ parsed = InvalidPatternError

\* C7: in the trees that declare `/*any` last (s1, s2) the matched leaf is
\* the `/*any` route only if no other route of the tree matches the path;
\* `/`, `/users` and `/users/42` never resolve to the `/*any` view.
C7_FallbackLastResort ==
    (app \in {"s1", "s2"} /\ navigated) =>
        /\ (result.tag = "Matched" /\ Last(result.view_chain) = NotFoundView) =>
              \A i \in 1..Len(routes.nodes) :
                  routes.nodes[i].view # NotFoundView =>
                      Match(<<routes.nodes[i]>>, path) = NotFound
        /\ path \in {p_root, p_users, p_users_42} =>
              ~(result.tag = "Matched" /\ Last(result.view_chain) = NotFoundView)

C7_Witness ==
    /\ app = "s1"
    /\ path = p_other
    /\ result.tag = "Matched"
    /\ result.view_chain = <<NotFoundView>>

\* node i of the top level decides the result for request path p: it is a
\* matching leaf, or its pattern matched a prefix and its children were entered
Decides(nodes, i, p) ==
    \/ Match(<<nodes[i]>>, p).tag = "Matched"
    \/ /\ nodes[i].children # <<>>
       /\ Consume(nodes[i].pattern.segs, Split(p)).ok

\* C8: the first sibling, in declaration order, that matches structurally
\* determines the result, also when its children do not consume the
\* remainder: in s2 `/users/1/2` is not resolved by the later `/*any`.
C8_NoBacktracking ==
    navigated =>
        /\ \A i \in 1..Len(routes.nodes) :
              (Decides(routes.nodes, i, path)
                  /\ \A j \in 1..(i - 1) : ~Decides(routes.nodes, j, path)) =>
                      result = Match(<<routes.nodes[i]>>, path)
        /\ (app = "s2" /\ path = p_users_1_2) => result = NotFound

C8_Witness ==
    /\ app = "s2"
    /\ path = p_users_1_2
    /\ result = NotFound
    /\ Match(<<routes.nodes[3]>>, path).tag = "Matched"

\* C9: a Matched result's view_chain is the views of the nodes of one
\* root-to-leaf branch whose full pattern accepts the path, root first; for
\* s2 and s4 and `/users/42` it is [Users, UserProfile]; for a top-level
\* Route it has length 1.
C9_ViewChainOrder ==
    (navigated /\ result.tag = "Matched") =>
        /\ \E b \in FlatRoutes(Declared(app)) :
              b.views = result.view_chain /\ Accepts(b.pat, path)
        /\ (app \in {"s2", "s4"} /\ path = p_users_42) =>
              result.view_chain = <<Users, UserProfile>>
        /\ \A i \in 1..Len(Declared(app)) :
              (Declared(app)[i].kind = "Route"
                  /\ result.view_chain[1] = Declared(app)[i].view) =>
                      Len(result.view_chain) = 1

C9_Witness ==
    /\ app = "s2"
    /\ path = p_users_42
    /\ result.view_chain = <<Users, UserProfile>>

\* C10: in s5 (children `:id`, then the empty pattern) `/users` is matched
\* through the empty-pattern child, `/users/42` through the `:id` child, and
\* the empty-pattern child matches no path with a remainder after `/users`.
C10_EmptyPathChild ==
    (app = "s5" /\ navigated) =>
        /\ path = p_users =>
              result = Matched(<<Users, NoUser>>, NoParams)
        /\ path = p_users_42 =>
              /\ result.tag = "Matched"
              /\ result.view_chain = <<Users, UserProfile>>
              /\ DOMAIN result.params = {s_id}
              /\ result.params[s_id] = s_42
        /\ (result.tag = "Matched" /\ Last(result.view_chain) = NoUser) =>
              path = p_users

C10_Witness ==
    /\ app = "s5"
    /\ path = p_users
    /\ result.view_chain = <<Users, NoUser>>
    /\ result.params = NoParams

====
